---- MODULE Spec2Model ----
(***************************************************************************)
(* A model of the Emacspeak speech server of emacspeak.py: the tokenizer   *)
(* and dispatcher of Emacspeaker.parseCommand, the twelve handlers of the  *)
(* command table, and the loop of TCPHandler.handle that feeds them.       *)
(*                                                                         *)
(* A Python str is modelled as a sequence of one-character strings, so     *)
(* that strip, split, the brace stripping, join, int() and float() are     *)
(* computed character by character as the code computes them.              *)
(***************************************************************************)
EXTENDS Integers, Sequences, FiniteSets, TLC

(***************************************************************************)
(* Bounds of the model.                                                    *)
(***************************************************************************)
\* The longest Speech Queue the model lets `q` and `t` build.
MaxQueue == 4
\* The longest Header the model lets `version` build.
MaxHeader == 2
\* The longest line the tokenizer is checked on.
MaxLine == 5

(***************************************************************************)
(* Python str operations.                                                  *)
(***************************************************************************)
\* The characters str.strip() removes that occur in the modelled lines.
Whitespace == {" ", "\t"}

RECURSIVE LStrip(_)
LStrip(s) ==
  IF s # <<>> /\ Head(s) \in Whitespace THEN LStrip(Tail(s)) ELSE s

RECURSIVE RStrip(_)
RStrip(s) ==
  IF s # <<>> /\ s[Len(s)] \in Whitespace
  THEN RStrip(SubSeq(s, 1, Len(s) - 1))
  ELSE s

\* str.strip()
Strip(s) == RStrip(LStrip(s))

\* str.split(" "): every single space separates two tokens, so two adjacent
\* spaces delimit an empty token and "" splits to [""].
RECURSIVE SplitFrom(_, _)
SplitFrom(s, cur) ==
  IF s = <<>> THEN <<cur>>
  ELSE IF Head(s) = " " THEN <<cur>> \o SplitFrom(Tail(s), <<>>)
  ELSE SplitFrom(Tail(s), Append(cur, Head(s)))

Split(s) == SplitFrom(s, <<>>)

\* sep.join(parts)
RECURSIVE Join(_, _)
Join(sep, parts) ==
  IF parts = <<>> THEN <<>>
  ELSE IF Len(parts) = 1 THEN parts[1]
  ELSE parts[1] \o sep \o Join(sep, Tail(parts))

StartsWith(s, c) == s # <<>> /\ Head(s) = c
EndsWith(s, c) == s # <<>> /\ s[Len(s)] = c

(***************************************************************************)
(* Python int() and float() on a token of ASCII characters.  A finite      *)
(* float value is kept as the decimal m * 10^(-e) with no trailing zero in *)
(* m (zero is m = 0, e = 0), so float("1.50") = float("1.5") and           *)
(* float("2.0") = float("2") = float("0.2e1"); inf and nan are values of   *)
(* their own.                                                              *)
(***************************************************************************)
Digits == {"0", "1", "2", "3", "4", "5", "6", "7", "8", "9"}

DigitVal(c) ==
  CASE c = "0" -> 0 [] c = "1" -> 1 [] c = "2" -> 2 [] c = "3" -> 3
    [] c = "4" -> 4 [] c = "5" -> 5 [] c = "6" -> 6 [] c = "7" -> 7
    [] c = "8" -> 8 [] c = "9" -> 9

\* A digit string as int() and float() accept it: digits, with single
\* underscores allowed between two digits.
IsDigitString(s) ==
  /\ s # <<>>
  /\ \A i \in 1..Len(s) : s[i] \in Digits \cup {"_"}
  /\ s[1] \in Digits /\ s[Len(s)] \in Digits
  /\ \A i \in 1..(Len(s) - 1) : ~(s[i] = "_" /\ s[i + 1] = "_")

RECURSIVE DigitsValue(_, _)
DigitsValue(s, acc) ==
  IF s = <<>> THEN acc
  ELSE IF Head(s) = "_" THEN DigitsValue(Tail(s), acc)
  ELSE DigitsValue(Tail(s), 10 * acc + DigitVal(Head(s)))

\* The number of digits of a digit string (underscores not counted).
RECURSIVE DigitCount(_)
DigitCount(s) ==
  IF s = <<>> THEN 0
  ELSE (IF Head(s) = "_" THEN 0 ELSE 1) + DigitCount(Tail(s))

HasSign(s) == s # <<>> /\ Head(s) \in {"+", "-"}
Unsigned(s) == IF HasSign(s) THEN Tail(s) ELSE s
SignOf(s) == IF s # <<>> /\ Head(s) = "-" THEN -1 ELSE 1

\* int(tok) returns (TRUE) or raises ValueError (FALSE).
IsInt(tok) == IsDigitString(Unsigned(Strip(tok)))

\* The value of int(tok) when it returns.
ParseInt(tok) ==
  SignOf(Strip(tok)) * DigitsValue(Unsigned(Strip(tok)), 0)

\* The position of the first character of s that is in cs, 0 when none is.
RECURSIVE FirstAt(_, _, _)
FirstAt(s, cs, i) ==
  IF i > Len(s) THEN 0 ELSE IF s[i] \in cs THEN i ELSE FirstAt(s, cs, i + 1)

Before(s, cs) ==
  IF FirstAt(s, cs, 1) = 0 THEN s ELSE SubSeq(s, 1, FirstAt(s, cs, 1) - 1)
After(s, cs) ==
  IF FirstAt(s, cs, 1) = 0 THEN <<>> ELSE SubSeq(s, FirstAt(s, cs, 1) + 1, Len(s))

\* The mantissa and the exponent of a float literal, and the integer and
\* fraction digits of the mantissa.
ExpMarks == {"e", "E"}
Mantissa(u) == Before(u, ExpMarks)
Exponent(u) == After(u, ExpMarks)
IntPart(u) == Before(Mantissa(u), {"."})
FracPart(u) == After(Mantissa(u), {"."})

\* str.lower() on the letters of inf, infinity and nan.
LowerChar(c) ==
  CASE c = "I" -> "i" [] c = "N" -> "n" [] c = "F" -> "f" [] c = "T" -> "t"
    [] c = "Y" -> "y" [] c = "A" -> "a" [] OTHER -> c
Lower(s) == [i \in 1..Len(s) |-> LowerChar(s[i])]

IsInfinity(u) ==
  Lower(u) \in {<<"i", "n", "f">>, <<"i", "n", "f", "i", "n", "i", "t", "y">>}
IsNan(u) == Lower(u) = <<"n", "a", "n">>

IsDecimal(u) ==
  /\ IntPart(u) = <<>> \/ IsDigitString(IntPart(u))
  /\ FracPart(u) = <<>> \/ IsDigitString(FracPart(u))
  /\ IntPart(u) # <<>> \/ FracPart(u) # <<>>
  /\ FirstAt(u, ExpMarks, 1) # 0 => IsDigitString(Unsigned(Exponent(u)))

\* float(tok) returns (TRUE) or raises ValueError (FALSE).
IsFloat(tok) ==
  LET u == Unsigned(Strip(tok)) IN IsInfinity(u) \/ IsNan(u) \/ IsDecimal(u)

RECURSIVE Normalize(_, _)
Normalize(m, e) ==
  IF m = 0 THEN [m |-> 0, e |-> 0]
  ELSE IF m % 10 = 0 THEN Normalize(m \div 10, e - 1)
  ELSE [m |-> m, e |-> e]

RECURSIVE Pow10(_)
Pow10(n) == IF n = 0 THEN 1 ELSE 10 * Pow10(n - 1)

\* The value of float(tok) when it returns.
ParseFloat(tok) ==
  LET u == Unsigned(Strip(tok))
      sign == SignOf(Strip(tok))
      frac == DigitCount(FracPart(u))
      m == DigitsValue(IntPart(u), 0) * Pow10(frac) + DigitsValue(FracPart(u), 0)
      x == IF Exponent(u) = <<>> THEN 0
           ELSE SignOf(Exponent(u)) * DigitsValue(Unsigned(Exponent(u)), 0)
  IN IF IsNan(u) THEN [nan |-> TRUE]
     ELSE IF IsInfinity(u) THEN [inf |-> sign]
     ELSE Normalize(sign * m, frac - x)

(***************************************************************************)
(* Speech items and backend calls (the speech module of the host).  An     *)
(* item is written as the constructor call of the source that makes it.    *)
(***************************************************************************)
\* A str item of a speech sequence.
Text(s) == [kind |-> "str", text |-> s]
\* speech.EndUtteranceCommand()
EndUtteranceCommand == [kind |-> "EndUtteranceCommand"]
\* speech.BeepCommand(hz, length)
BeepCommand(hz, length) == [kind |-> "BeepCommand", hz |-> hz, length |-> length]
\* speech.RateCommand(offset)
RateCommand(offset) == [kind |-> "RateCommand", offset |-> offset]
\* speech.RateCommand(multiplier=m)
RateMultiplier(m) == [kind |-> "RateCommand", multiplier |-> m]

\* speech.getSpellingSpeech(text): the backend's expansion, one item for
\* each character of the text, in order.
RECURSIVE getSpellingSpeech(_)
getSpellingSpeech(text) ==
  IF text = <<>> THEN <<>>
  ELSE <<[kind |-> "spell", ch |-> Head(text)]>> \o getSpellingSpeech(Tail(text))

\* "NVDA " + versionInfo.version, the version being one opaque character.
VersionString == <<"N", "V", "D", "A", " ", "#">>

\* speech.speak(items, priority=speech.priorities.SpeechPriority.NOW)
Speak(items) == [op |-> "speak", items |-> items, priority |-> "NOW"]
\* speech.cancelSpeech()
CancelSpeech == [op |-> "cancelSpeech"]
\* speech.pauseSpeech(switch)
PauseSpeech(switch) == [op |-> "pauseSpeech", switch |-> switch]

(***************************************************************************)
(* The names of the command table.                                         *)
(***************************************************************************)
N_tts_saytext == <<"t", "t", "s", "_", "s", "a", "y", "t", "e", "x", "t">>
N_q == <<"q">>
N_d == <<"d">>
N_l == <<"l">>
N_tts_pause == <<"t", "t", "s", "_", "p", "a", "u", "s", "e">>
N_tts_resume == <<"t", "t", "s", "_", "r", "e", "s", "u", "m", "e">>
N_s == <<"s">>
N_t == <<"t">>
N_tts_set_speech_rate ==
  <<"t", "t", "s", "_", "s", "e", "t", "_", "s", "p", "e", "e", "c", "h", "_",
    "r", "a", "t", "e">>
N_tts_set_character_scale ==
  <<"t", "t", "s", "_", "s", "e", "t", "_", "c", "h", "a", "r", "a", "c", "t",
    "e", "r", "_", "s", "c", "a", "l", "e">>
N_version == <<"v", "e", "r", "s", "i", "o", "n">>
N_tts_reset == <<"t", "t", "s", "_", "r", "e", "s", "e", "t">>

\* The keys of self._cmdMap.
cmdMap ==
  { N_tts_saytext, N_q, N_d, N_l, N_tts_pause, N_tts_resume, N_s, N_t,
    N_tts_set_speech_rate, N_tts_set_character_scale, N_version, N_tts_reset }

(***************************************************************************)
(* The lines a client sends.                                               *)
(***************************************************************************)
SP == <<" ">>

Lines ==
  { N_q \o SP \o <<"{", "a", "}">>,                       \* q {a}
    N_q \o SP \o <<"{", "b", " ", "c", "}">>,             \* q {b c}
    N_d,                                                  \* d
    N_l \o SP \o <<"{", "a", "b", "}">>,                  \* l {ab}
    N_s,                                                  \* s
    N_t \o SP \o <<"{", "0", ".", "5", " ", "4", "}">>,   \* t {0.5 4}
    N_t \o SP \o <<"0", ".", "5">>,                       \* t 0.5
    N_t,                                                  \* t
    N_t \o SP \o <<"1", " ", "2", " ", "3">>,             \* t 1 2 3
    N_t \o SP \o <<"x", " ", "1">>,                       \* t x 1
    N_t \o SP \o <<"1", " ", "x">>,                       \* t 1 x
    N_t \o SP \o <<" ", "1">>,                            \* "t  1": args "", "1"
    N_t \o SP \o <<"1", " ", "0", ".", "5">>,             \* t 1 0.5
    N_tts_set_speech_rate \o SP \o <<"6", "0">>,          \* tts_set_speech_rate 60
    N_tts_set_speech_rate \o SP \o <<"{", "4", "5", "}">>,
    N_tts_set_speech_rate \o SP \o <<"x">>,
    N_tts_set_speech_rate,
    N_tts_set_character_scale \o SP \o <<"1", ".", "5">>,
    N_tts_set_character_scale \o SP \o <<"x">>,
    N_tts_set_character_scale,
    N_version,
    N_tts_reset,
    N_tts_pause,
    <<" ">> \o N_tts_resume \o <<"\t">>,                  \* " tts_resume\t"
    N_tts_saytext \o SP \o <<"{", "a", " ", "b", "}">>,   \* tts_saytext {a b}
    <<>>,                                                 \* the empty line
    <<"z", "z">> }                                        \* zz

\* The values speech.RateCommand().newValue can have: the backend's rate
\* setting, fixed while the server runs.
BackendRates == {50, 60}

(***************************************************************************)
(* The state of the server.                                                *)
(***************************************************************************)
VARIABLES
  state,        \* self._state: each key holds {} (absent) or {value}
  header,       \* self._header
  queue,        \* self._queue
  calls,        \* the backend calls made by the last line handled, in order
  raised,       \* the exception the last line handled raised, or "none"
  lastLine,     \* the last line TCPHandler.handle read, or NoLine
  connected,    \* TRUE while handle is running on an accepted connection
  defaultRate,  \* speech.RateCommand().newValue
  qrun,         \* history: the texts of the `q` run in progress
  qmode,        \* history: "building" a `q` run, "dispatched" by `d`, "none"
  stopped,      \* history: `s` was handled and no `q` or `t` since
  lastRate,     \* history: {R} after a well-formed tts_set_speech_rate R
  again,        \* history: the line handled last was handled twice in a row
  tokLine,      \* cmd of a parseCommand call taken by itself
  tokOut,       \* its t when the tokenizer is through, or NoLine
  sock,         \* each connection: "closed", "open", "hung" (its client closed)
  inbox,        \* each connection: the line sent and not yet read, or NoLine
  pc,           \* each connection: where its handle is: "none", "loop", "d_clear"
  dres,         \* each connection: the local res of its d between speak and clear
  appended      \* history: each connection's appends since the queue was cleared

\* The history variables of the single-connection view.
hist == <<qrun, qmode, stopped, lastRate, again>>
\* The tokenizer taken by itself.
tok == <<tokLine, tokOut>>
\* The connections.
net == <<sock, inbox, pc, dres, appended>>

vars ==
  <<state, header, queue, calls, raised, lastLine, connected, defaultRate,
    qrun, qmode, stopped, lastRate, again, tokLine, tokOut,
    sock, inbox, pc, dres, appended>>

\* The client connections the model tells apart.
Conns == {"c1", "c2"}

\* What handle read last when it was no line: nothing yet, or end of file.
NoLine == <<"no line">>

\* self._state = {}
EmptyState == [rate_offset |-> {}, character_scale |-> {}]

\* Emacspeaker.__init__: the fields of the server, before any line is read.
Fresh ==
  /\ state = EmptyState
  /\ header = <<>>
  /\ queue = <<>>
  /\ calls = <<>>
  /\ raised = "none"
  /\ lastLine = NoLine
  /\ defaultRate \in BackendRates
  /\ qrun = <<>>
  /\ qmode = "none"
  /\ stopped = FALSE
  /\ lastRate = {}
  /\ again = FALSE

\* No parseCommand call is looked at by itself.
NoTok == tokLine = NoLine /\ tokOut = NoLine

\* No connection has been made.
NoNet ==
  /\ sock = [c \in Conns |-> "closed"]
  /\ inbox = [c \in Conns |-> NoLine]
  /\ pc = [c \in Conns |-> "none"]
  /\ dres = [c \in Conns |-> <<>>]
  /\ appended = [c \in Conns |-> <<>>]

\* Emacspeaker.__init__, and the first connection accepted.  In this view the
\* connections are not told apart: one is served at a time, and `connected`
\* says whether one is.
Init ==
  /\ Fresh
  /\ connected = TRUE
  /\ NoTok
  /\ NoNet

(***************************************************************************)
(* The tokenizer of parseCommand.                                          *)
(***************************************************************************)
\* t = cmd.strip().split(" "), padded to two tokens.
Tokens(cmd) ==
  LET t == Split(Strip(cmd)) IN IF Len(t) < 2 THEN Append(t, <<>>) ELSE t

\* Mutant of StripBraces: the leading brace is looked for in the command name.
StripBraces_fromName(t) ==
  LET a == IF StartsWith(t[1], "{") THEN [t EXCEPT ![1] = Tail(@)] ELSE t
      n == Len(a)
  IN IF EndsWith(a[n], "}")
     THEN [a EXCEPT ![n] = SubSeq(@, 1, Len(@) - 1)]
     ELSE a

\* One leading "{" off t[1] (Python index), one trailing "}" off t[-1].
StripBraces(t) ==
  LET a == IF StartsWith(t[2], "{") THEN [t EXCEPT ![2] = Tail(@)] ELSE t
      n == Len(a)
  IN IF EndsWith(a[n], "}")
     THEN [a EXCEPT ![n] = SubSeq(@, 1, Len(@) - 1)]
     ELSE a

Tokenize(cmd) == StripBraces(Tokens(cmd))

\* The commands handle passes to parseCommand (line.decode("utf-8").strip()),
\* and their tokens, tabulated once.
Commands == {Strip(line) : line \in Lines}
TokenTable == [cmd \in Commands |-> Tokenize(cmd)]

(***************************************************************************)
(* The handlers of the command table.  Each sets state, header, queue,     *)
(* calls and raised; `args` is t[1:] of parseCommand.                      *)
(***************************************************************************)
\* A handler that raises before it changes anything or calls the backend.
Raise(exc) ==
  /\ raised' = exc
  /\ calls' = <<>>
  /\ UNCHANGED <<state, header, queue>>

\* Emacspeaker._buildHeader, as a function of self._state.
buildHeader(st) ==
  IF st.rate_offset # {}
  THEN <<RateCommand(CHOOSE v \in st.rate_offset : TRUE)>>
  ELSE <<>>

\* "tts_saytext": functools.partial(speech.speak, priority=NOW), called
\* with the argument tokens as its speech sequence.
tts_saytext(args) ==
  /\ calls' = <<Speak([i \in 1..Len(args) |-> Text(args[i])])>>
  /\ raised' = "none"
  /\ UNCHANGED <<state, header, queue>>

\* Mutant of q: the text is appended without its end-of-utterance marker.
q_textOnly(args) ==
  /\ Len(queue) + 2 <= MaxQueue
  /\ queue' = Append(queue, Text(Join(<<" ">>, args)))
  /\ calls' = <<>>
  /\ raised' = "none"
  /\ UNCHANGED <<state, header>>

\* Mutant of q: the end-of-utterance marker is put in front of its text.
q_endFirst(args) ==
  /\ Len(queue) + 2 <= MaxQueue
  /\ queue' = queue \o <<EndUtteranceCommand, Text(Join(<<" ">>, args))>>
  /\ calls' = <<>>
  /\ raised' = "none"
  /\ UNCHANGED <<state, header>>

\* Emacspeaker.q
q(args) ==
  /\ Len(queue) + 2 <= MaxQueue
  /\ queue' = queue \o <<Text(Join(<<" ">>, args)), EndUtteranceCommand>>
  /\ calls' = <<>>
  /\ raised' = "none"
  /\ UNCHANGED <<state, header>>

\* Mutant of d: the queue is spoken but not cleared.
d_noClear(args) ==
  /\ calls' = <<Speak(header \o queue)>>
  /\ raised' = "none"
  /\ UNCHANGED <<state, header, queue>>

\* Emacspeaker.d
d(args) ==
  /\ calls' = <<Speak(header \o queue)>>
  /\ queue' = <<>>
  /\ raised' = "none"
  /\ UNCHANGED <<state, header>>

\* Emacspeaker.l
l(args) ==
  LET scale == IF state.character_scale # {}
               THEN <<RateMultiplier(CHOOSE v \in state.character_scale : TRUE)>>
               ELSE <<>>
      res == header \o scale \o getSpellingSpeech(Join(<<>>, args))
  IN /\ calls' = <<CancelSpeech, Speak(res)>>
     /\ raised' = "none"
     /\ UNCHANGED <<state, header, queue>>

\* Emacspeaker.pause
pause(args) ==
  /\ calls' = <<PauseSpeech(TRUE)>>
  /\ raised' = "none"
  /\ UNCHANGED <<state, header, queue>>

\* Emacspeaker.resume
resume(args) ==
  /\ calls' = <<PauseSpeech(FALSE)>>
  /\ raised' = "none"
  /\ UNCHANGED <<state, header, queue>>

\* Mutant of s: only the newest item is taken off the queue.
s_popOne(args) ==
  /\ calls' = <<CancelSpeech>>
  /\ queue' = (IF queue = <<>> THEN <<>> ELSE SubSeq(queue, 1, Len(queue) - 1))
  /\ raised' = "none"
  /\ UNCHANGED <<state, header>>

\* Emacspeaker.s
s(args) ==
  /\ calls' = <<CancelSpeech>>
  /\ queue' = <<>>
  /\ raised' = "none"
  /\ UNCHANGED <<state, header>>

\* Mutant of t: the arity test lets more than two arguments through.
t_looseArity(args) ==
  IF Len(args) < 2
  THEN /\ calls' = <<>>
       /\ raised' = "none"
       /\ UNCHANGED <<state, header, queue>>
  ELSE IF ~IsFloat(args[1]) \/ ~IsInt(args[2])
  THEN Raise("ValueError")
  ELSE /\ Len(queue) + 1 <= MaxQueue
       /\ queue' = Append(queue, BeepCommand(ParseFloat(args[1]), ParseInt(args[2])))
       /\ calls' = <<>>
       /\ raised' = "none"
       /\ UNCHANGED <<state, header>>

\* Emacspeaker.t
t(args) ==
  IF Len(args) # 2
  THEN /\ calls' = <<>>
       /\ raised' = "none"
       /\ UNCHANGED <<state, header, queue>>
  ELSE IF ~IsFloat(args[1]) \/ ~IsInt(args[2])
  THEN Raise("ValueError")
  ELSE /\ Len(queue) + 1 <= MaxQueue
       /\ queue' = Append(queue, BeepCommand(ParseFloat(args[1]), ParseInt(args[2])))
       /\ calls' = <<>>
       /\ raised' = "none"
       /\ UNCHANGED <<state, header>>

\* Mutant of setRate: the rebuilt entries are added to the old Header.
setRate_accumulate(args) ==
  IF ~IsInt(args[1])
  THEN Raise("ValueError")
  ELSE /\ state' = [state EXCEPT !.rate_offset = {ParseInt(args[1]) - defaultRate}]
       /\ header' = header \o buildHeader(state')
       /\ calls' = <<>>
       /\ raised' = "none"
       /\ UNCHANGED queue

\* Mutant of setRate: a malformed rate is taken as 0 instead of raising.
setRate_zeroOnError(args) ==
  LET value == IF IsInt(args[1]) THEN ParseInt(args[1]) ELSE 0 IN
    /\ state' = [state EXCEPT !.rate_offset = {value - defaultRate}]
    /\ header' = buildHeader(state')
    /\ calls' = <<>>
    /\ raised' = "none"
    /\ UNCHANGED queue

\* Emacspeaker.setRate
setRate(args) ==
  IF ~IsInt(args[1])
  THEN Raise("ValueError")
  ELSE /\ state' = [state EXCEPT !.rate_offset = {ParseInt(args[1]) - defaultRate}]
       /\ header' = buildHeader(state')
       /\ calls' = <<>>
       /\ raised' = "none"
       /\ UNCHANGED queue

\* Emacspeaker.setCharacterScale
setCharacterScale(args) ==
  IF ~IsFloat(args[1])
  THEN Raise("ValueError")
  ELSE /\ state' = [state EXCEPT !.character_scale = {ParseFloat(args[1])}]
       /\ calls' = <<>>
       /\ raised' = "none"
       /\ UNCHANGED <<header, queue>>

\* Emacspeaker.version: res is self._header itself, not a copy, so the
\* append lands in the Header.
version(args) ==
  /\ Len(header) < MaxHeader
  /\ header' = Append(header, Text(VersionString))
  /\ calls' = <<Speak(header')>>
  /\ raised' = "none"
  /\ UNCHANGED <<state, queue>>

\* The positional arguments parseCommand passes to a handler (besides self).
CallArity == 1
\* The positional parameters `def reset(self)` accepts (besides self).
ResetArity == 0

\* Emacspeaker.reset, called as self._cmdMap[t[0]](t[1:]).
reset(args) ==
  IF CallArity # ResetArity
  THEN Raise("TypeError")
  ELSE /\ state' = EmptyState
       /\ header' = buildHeader(state')
       /\ calls' = <<>>
       /\ raised' = "none"
       /\ UNCHANGED queue

(***************************************************************************)
(* parseCommand and the connection handler.                                *)
(***************************************************************************)
\* Mutant of parseCommand: the table is indexed without the membership test,
\* so an unknown name raises KeyError.
parseCommand_noLookup(cmd) ==
  LET tk == TokenTable[cmd]
      name == tk[1]
      args == Tail(tk)
  IN \/ name = N_tts_saytext /\ tts_saytext(args)
     \/ name = N_q /\ q(args)
     \/ name = N_d /\ d(args)
     \/ name = N_l /\ l(args)
     \/ name = N_tts_pause /\ pause(args)
     \/ name = N_tts_resume /\ resume(args)
     \/ name = N_s /\ s(args)
     \/ name = N_t /\ t(args)
     \/ name = N_tts_set_speech_rate /\ setRate(args)
     \/ name = N_tts_set_character_scale /\ setCharacterScale(args)
     \/ name = N_version /\ version(args)
     \/ name = N_tts_reset /\ reset(args)
     \/ name \notin cmdMap /\ Raise("KeyError")

\* Emacspeaker.parseCommand
parseCommand(cmd) ==
  LET tk == TokenTable[cmd]
      name == tk[1]
      args == Tail(tk)
  IN \/ name = N_tts_saytext /\ tts_saytext(args)
     \/ name = N_q /\ q(args)
     \/ name = N_d /\ d(args)
     \/ name = N_l /\ l(args)
     \/ name = N_tts_pause /\ pause(args)
     \/ name = N_tts_resume /\ resume(args)
     \/ name = N_s /\ s(args)
     \/ name = N_t /\ t(args)
     \/ name = N_tts_set_speech_rate /\ setRate(args)
     \/ name = N_tts_set_character_scale /\ setCharacterScale(args)
     \/ name = N_version /\ version(args)
     \/ name = N_tts_reset /\ reset(args)
     \/ /\ name \notin cmdMap
        /\ calls' = <<>>
        /\ raised' = "none"
        /\ UNCHANGED <<state, header, queue>>

\* The command name and the arguments parseCommand derives from a line that
\* handle read.
NameOf(line) == TokenTable[Strip(line)][1]
ArgsOf(line) == Tail(TokenTable[Strip(line)])

\* The history variables, which record what the line just handled means for
\* the runs of commands the properties speak of.
History(line) ==
  LET name == NameOf(line) IN
    /\ IF name = N_q
       THEN IF queue = <<>>
            THEN qmode' = "building" /\ qrun' = <<Join(<<" ">>, ArgsOf(line))>>
            ELSE IF qmode = "building"
            THEN qmode' = "building" /\ qrun' = Append(qrun, Join(<<" ">>, ArgsOf(line)))
            ELSE qmode' = "none" /\ qrun' = <<>>
       ELSE IF name = N_d /\ qmode = "building"
       THEN qmode' = "dispatched" /\ qrun' = qrun
       ELSE IF qmode = "building" /\ queue' = queue
       THEN UNCHANGED <<qmode, qrun>>
       ELSE qmode' = "none" /\ qrun' = <<>>
    /\ stopped' = (IF name = N_s THEN TRUE
                   ELSE IF name \in {N_q, N_t} THEN FALSE
                   ELSE stopped)
    /\ lastRate' = (IF name = N_tts_set_speech_rate
                    THEN IF IsInt(ArgsOf(line)[1])
                         THEN {ParseInt(ArgsOf(line)[1])}
                         ELSE {}
                    ELSE IF name = N_tts_reset THEN {}
                    ELSE lastRate)

\* One iteration of TCPHandler.handle: read a line, strip it, dispatch it.  An
\* exception leaves the loop and socketserver closes the connection.
handle ==
  \E line \in Lines :
    /\ connected
    /\ lastLine' = line
    /\ parseCommand(Strip(line))
    /\ connected' = (raised' = "none")
    /\ History(line)
    /\ UNCHANGED <<defaultRate, again, tok, net>>

\* The peer closes the connection: the loop of handle ends at end of file.
close ==
  /\ connected
  /\ lastLine' = NoLine
  /\ calls' = <<>>
  /\ raised' = "none"
  /\ connected' = FALSE
  /\ again' = FALSE
  /\ UNCHANGED <<state, header, queue, defaultRate, qrun, qmode, stopped, lastRate,
                 tok, net>>

\* serve_forever accepts the next connection after the previous one ended.
accept ==
  /\ ~connected
  /\ connected' = TRUE
  /\ UNCHANGED <<state, header, queue, calls, raised, lastLine, defaultRate,
                 hist, tok, net>>

Next == handle \/ close \/ accept

Spec == Init /\ [][Next]_vars

(***************************************************************************)
(* The same server, with the record of a line handled twice in a row: one  *)
(* line of each command of the table, an unknown command and a malformed   *)
(* rate.                                                                   *)
(***************************************************************************)
RepeatLines ==
  { N_q \o SP \o <<"{", "a", "}">>,
    N_d,
    N_l \o SP \o <<"{", "a", "b", "}">>,
    N_s,
    N_t \o SP \o <<"{", "0", ".", "5", " ", "4", "}">>,
    N_t,
    N_tts_set_speech_rate \o SP \o <<"6", "0">>,
    N_tts_set_speech_rate \o SP \o <<"{", "4", "5", "}">>,
    N_tts_set_speech_rate \o SP \o <<"x">>,
    N_tts_set_character_scale \o SP \o <<"1", ".", "5">>,
    N_version,
    N_tts_reset,
    N_tts_pause,
    <<" ">> \o N_tts_resume \o <<"\t">>,
    N_tts_saytext \o SP \o <<"{", "a", " ", "b", "}">>,
    <<"z", "z">> }

\* One iteration of TCPHandler.handle, as in handle.
handleRepeat ==
  \E line \in RepeatLines :
    /\ connected
    /\ lastLine' = line
    /\ parseCommand(Strip(line))
    /\ connected' = (raised' = "none")
    /\ again' = (lastLine = line)
    /\ UNCHANGED <<defaultRate, qrun, qmode, stopped, lastRate, tok, net>>

NextRepeat == handleRepeat \/ close \/ accept

SpecRepeat == Init /\ [][NextRepeat]_vars

(***************************************************************************)
(* The tokenizer of parseCommand taken by itself, on every line of at most *)
(* MaxLine characters over TokChars.                                       *)
(***************************************************************************)
TokChars == {"q", " ", "\t", "{", "}"}
TokLines == UNION {[1..n -> TokChars] : n \in 0..MaxLine}

InitTok ==
  /\ Fresh
  /\ connected = TRUE
  /\ NoNet
  /\ tokLine \in TokLines
  /\ tokOut = NoLine

\* Lines 41-48 of parseCommand, run on cmd = tokLine.
tokenize ==
  /\ tokLine # NoLine
  /\ tokOut = NoLine
  /\ tokOut' = Tokenize(tokLine)
  /\ UNCHANGED <<state, header, queue, calls, raised, lastLine, connected,
                 defaultRate, hist, tokLine, net>>

NextTok == tokenize

SpecTok == InitTok /\ [][NextTok]_vars

(***************************************************************************)
(* The server and its connections told apart.  A client connects, sends    *)
(* lines and closes; serve_forever accepts a connection and runs           *)
(* TCPHandler.handle on it.  `d` is taken in its two steps, the speak call *)
(* and the clear; the other handlers change the shared fields in one step. *)
(***************************************************************************)
ServerLines ==
  { N_q \o SP \o <<"{", "a", "}">>,
    N_q \o SP \o <<"{", "b", " ", "c", "}">>,
    N_d,
    N_t \o SP \o <<"{", "0", ".", "5", " ", "4", "}">>,
    N_tts_set_speech_rate \o SP \o <<"x">> }

\* Emacspeaker.__init__ and start: the server listens, nobody has connected.
InitServer ==
  /\ Fresh
  /\ connected = FALSE
  /\ NoTok
  /\ NoNet

\* History: the items the line `q` or `t` of a client is to append.
Unit(line) ==
  LET name == NameOf(line)
      args == ArgsOf(line)
  IN IF name = N_q THEN <<Text(Join(<<" ">>, args)), EndUtteranceCommand>>
     ELSE IF name = N_t /\ Len(args) = 2 /\ IsFloat(args[1]) /\ IsInt(args[2])
     THEN <<BeepCommand(ParseFloat(args[1]), ParseInt(args[2]))>>
     ELSE <<>>

\* A client connects: the connection waits in the listen queue.
connect(c) ==
  /\ sock[c] = "closed"
  /\ pc[c] = "none"
  /\ sock' = [sock EXCEPT ![c] = "open"]
  /\ UNCHANGED <<state, header, queue, calls, raised, lastLine, connected,
                 defaultRate, hist, tok, inbox, pc, dres, appended>>

\* A client sends a line, accepted or not yet.
send(c) ==
  \E line \in ServerLines :
    /\ sock[c] = "open"
    /\ inbox[c] = NoLine
    /\ inbox' = [inbox EXCEPT ![c] = line]
    /\ UNCHANGED <<state, header, queue, calls, raised, lastLine, connected,
                   defaultRate, hist, tok, sock, pc, dres, appended>>

\* A client closes its end.
hangup(c) ==
  /\ sock[c] = "open"
  /\ sock' = [sock EXCEPT ![c] = "hung"]
  /\ UNCHANGED <<state, header, queue, calls, raised, lastLine, connected,
                 defaultRate, hist, tok, inbox, pc, dres, appended>>

\* Mutant of CanAccept: every connection gets a thread of its own.
CanAccept_threaded == TRUE

\* socketserver.TCPServer has no threading mix-in: serve_forever runs handle
\* itself and accepts again when handle has returned.
CanAccept == \A c \in Conns : pc[c] = "none"

\* serve_forever accepts a waiting connection and enters handle.
srvAccept(c) ==
  /\ sock[c] \in {"open", "hung"}
  /\ pc[c] = "none"
  /\ CanAccept
  /\ pc' = [pc EXCEPT ![c] = "loop"]
  /\ connected' = TRUE
  /\ UNCHANGED <<state, header, queue, calls, raised, lastLine,
                 defaultRate, hist, tok, sock, inbox, dres, appended>>

\* handle reads a line other than `d` and dispatches it; an exception leaves
\* handle and socketserver closes the connection.
srvLine(c) ==
  LET line == inbox[c] IN
    /\ pc[c] = "loop"
    /\ line # NoLine
    /\ NameOf(line) # N_d
    /\ lastLine' = line
    /\ parseCommand(Strip(line))
    /\ inbox' = [inbox EXCEPT ![c] = NoLine]
    /\ pc' = [pc EXCEPT ![c] = IF raised' = "none" THEN "loop" ELSE "none"]
    /\ sock' = (IF raised' = "none" THEN sock ELSE [sock EXCEPT ![c] = "closed"])
    /\ connected' = (\E k \in Conns : pc'[k] # "none")
    /\ appended' = (IF raised' = "none" /\ Unit(line) # <<>>
                    THEN [appended EXCEPT ![c] = Append(@, Unit(line))]
                    ELSE appended)
    /\ UNCHANGED <<defaultRate, hist, tok, dres>>

\* handle reads `d`: d builds res from the Header and the queue and speaks it.
srvD_speak(c) ==
  LET line == inbox[c] IN
    /\ pc[c] = "loop"
    /\ line # NoLine
    /\ NameOf(line) = N_d
    /\ lastLine' = line
    /\ dres' = [dres EXCEPT ![c] = header \o queue]
    /\ calls' = <<Speak(header \o queue)>>
    /\ raised' = "none"
    /\ inbox' = [inbox EXCEPT ![c] = NoLine]
    /\ pc' = [pc EXCEPT ![c] = "d_clear"]
    /\ UNCHANGED <<state, header, queue, connected, defaultRate, hist, tok,
                   sock, appended>>

\* d clears the queue and returns to handle's loop.
srvD_clear(c) ==
  /\ pc[c] = "d_clear"
  /\ queue' = <<>>
  /\ dres' = [dres EXCEPT ![c] = <<>>]
  /\ pc' = [pc EXCEPT ![c] = "loop"]
  /\ appended' = [k \in Conns |-> <<>>]
  /\ UNCHANGED <<state, header, calls, raised, lastLine, connected,
                 defaultRate, hist, tok, sock, inbox>>

\* handle meets end of file on a connection its client closed, and returns.
srvEOF(c) ==
  /\ pc[c] = "loop"
  /\ inbox[c] = NoLine
  /\ sock[c] = "hung"
  /\ pc' = [pc EXCEPT ![c] = "none"]
  /\ sock' = [sock EXCEPT ![c] = "closed"]
  /\ connected' = (\E k \in Conns : pc'[k] # "none")
  /\ UNCHANGED <<state, header, queue, calls, raised, lastLine,
                 defaultRate, hist, tok, inbox, dres, appended>>

NextServer ==
  \E c \in Conns :
    \/ connect(c)
    \/ send(c)
    \/ hangup(c)
    \/ srvAccept(c)
    \/ srvLine(c)
    \/ srvD_speak(c)
    \/ srvD_clear(c)
    \/ srvEOF(c)

SpecServer == InitServer /\ [][NextServer]_vars

(***************************************************************************)
(* Vocabulary of the properties.                                           *)
(***************************************************************************)
\* The Header as the rebuild algorithm derives it from the Session State.
DerivedHeader == buildHeader(state)

\* The name and the arguments of the line handled last.
LastName == IF lastLine = NoLine THEN NoLine ELSE NameOf(lastLine)
LastArgs == IF lastLine = NoLine THEN <<>> ELSE ArgsOf(lastLine)

\* The step is one iteration of handle, on the line lastLine'.
Handled == connected /\ lastLine' # NoLine

\* x1, END, x2, END, ... for the texts xs.
RECURSIVE Utterances(_)
Utterances(xs) ==
  IF xs = <<>> THEN <<>>
  ELSE <<Text(Head(xs)), EndUtteranceCommand>> \o Utterances(Tail(xs))

IsPrefix(p, xs) == Len(p) <= Len(xs) /\ SubSeq(xs, 1, Len(p)) = p

\* The speak calls among the backend calls of the line handled last.
SpeakCalls == SelectSeq(calls, LAMBDA c : c.op = "speak")

\* The offsets of the relative-rate entries RateCommand(offset) of a request.
IsRateOffset(item) == item.kind = "RateCommand" /\ "offset" \in DOMAIN item
RateOffsets(items) ==
  LET sel == SelectSeq(items, IsRateOffset)
  IN [i \in 1..Len(sel) |-> sel[i].offset]

C2_HeaderDerived ==
  header = (IF state.rate_offset = {} THEN <<>>
            ELSE <<RateCommand(CHOOSE v \in state.rate_offset : TRUE)>>)

(***************************************************************************)
(* C3.  `tts_reset` completes normally and leaves the Session State with   *)
(* no keys and the Header empty, and a well-formed tts_set_speech_rate R   *)
(* leaves a Header of exactly one rate entry R - defaultRate.              *)
(***************************************************************************)
C3_Reset ==
  /\ LastName = N_tts_reset =>
       raised = "none" /\ state = EmptyState /\ header = <<>>
  /\ LastName = N_tts_set_speech_rate /\ IsInt(LastArgs[1]) =>
       header = <<RateCommand(ParseInt(LastArgs[1]) - defaultRate)>>

(***************************************************************************)
(* C4.  After a well-formed tts_set_speech_rate R not followed by another  *)
(* rate or reset command, the request of every later `d`, `l` or `version` *)
(* holds exactly one rate-offset entry, of value R - defaultRate.          *)
(***************************************************************************)
C4_OneRateEntry ==
  lastRate # {} /\ LastName \in {N_d, N_l, N_version} =>
    /\ Len(SpeakCalls) = 1
    /\ RateOffsets(SpeakCalls[1].items) =
         <<(CHOOSE r \in lastRate : TRUE) - defaultRate>>

\* `l` spoke after two rate commands, with a character scale set as well.
C4_Witness ==
  /\ lastRate = {45}
  /\ defaultRate = 50
  /\ LastName = N_l
  /\ state.character_scale # {}
  /\ Len(SpeakCalls) = 1
  /\ Len(SpeakCalls[1].items) = 4

(***************************************************************************)
(* C5.  Every `version` submits one immediate-speak request whose items    *)
(* are exactly the Header items followed by exactly one version string.    *)
(***************************************************************************)
C5_VersionRequest ==
  LastName = N_version =>
    calls = <<Speak(DerivedHeader \o <<Text(VersionString)>>)>>

(***************************************************************************)
(* C6.  Every speech request of `tts_saytext`, `d`, `l` or `version`       *)
(* begins with the Header derived from the current Session State.          *)
(***************************************************************************)
C6_HeaderFirst ==
  LastName \in {N_tts_saytext, N_d, N_l, N_version} =>
    /\ Len(SpeakCalls) = 1
    /\ IsPrefix(DerivedHeader, SpeakCalls[1].items)

(***************************************************************************)
(* C7.  `s` cancels backend speech, empties the Speech Queue and makes no  *)
(* speak call; a `d` after `s` with no `q` or `t` in between submits a     *)
(* request of the Header items only (no text, end marker or tone).         *)
(***************************************************************************)
C7_StopThenDispatch ==
  /\ LastName = N_s => calls = <<CancelSpeech>> /\ queue = <<>>
  /\ stopped /\ LastName = N_d => calls = <<Speak(DerivedHeader)>>

(***************************************************************************)
(* C8.  A `t` whose argument count is not 2 leaves Speech Queue, Session   *)
(* State and Header unchanged and makes no backend call; a `t` with a      *)
(* well-formed float and a well-formed integer appends exactly one tone    *)
(* request at the tail of the Speech Queue and changes nothing else.       *)
(***************************************************************************)
C8_ToneStep ==
  LET args == ArgsOf(lastLine') IN
    Handled /\ NameOf(lastLine') = N_t =>
      IF Len(args) # 2
      THEN /\ UNCHANGED <<queue, state, header>>
           /\ calls' = <<>>
           /\ raised' = "none"
      ELSE IsFloat(args[1]) /\ IsInt(args[2]) =>
             /\ Len(queue') = Len(queue) + 1
             /\ SubSeq(queue', 1, Len(queue)) = queue
             /\ queue'[Len(queue')] =
                  BeepCommand(ParseFloat(args[1]), ParseInt(args[2]))
             /\ UNCHANGED <<state, header>>
             /\ calls' = <<>>
             /\ raised' = "none"

C8_Tone == [][C8_ToneStep]_vars

\* A tone was appended behind an utterance, with a rate set.
C8_Witness ==
  /\ LastName = N_t
  /\ Len(LastArgs) = 2
  /\ raised = "none"
  /\ Len(queue) = 3
  /\ queue[3] = BeepCommand([m |-> 5, e |-> 1], 4)
  /\ header # <<>>

(***************************************************************************)
(* C9.  A line whose command name is none of the twelve names of the       *)
(* command table is dropped: Session State, Header and Speech Queue are    *)
(* unchanged, no backend call is made, no error is raised and the          *)
(* connection goes on.                                                     *)
(***************************************************************************)
C9_UnknownStep ==
  Handled /\ NameOf(lastLine') \notin cmdMap =>
    /\ UNCHANGED <<state, header, queue>>
    /\ calls' = <<>>
    /\ raised' = "none"
    /\ connected'
    /\ Cardinality(cmdMap) = 12

C9_Unknown == [][C9_UnknownStep]_vars

\* The empty line was dropped with a queue and a header in place.
C9_Witness ==
  /\ lastLine = <<>>
  /\ connected
  /\ calls = <<>>
  /\ queue # <<>>
  /\ header # <<>>
  /\ state.character_scale # {}

(***************************************************************************)
(* C10.  When tts_set_speech_rate, tts_set_character_scale or a            *)
(* two-argument `t` gets an argument that is not a well-formed number,     *)
(* Session State, Header and Speech Queue are exactly as before.           *)
(***************************************************************************)
MalformedNumber(name, args) ==
  \/ name = N_tts_set_speech_rate /\ ~IsInt(args[1])
  \/ name = N_tts_set_character_scale /\ ~IsFloat(args[1])
  \/ name = N_t /\ Len(args) = 2 /\ (~IsFloat(args[1]) \/ ~IsInt(args[2]))

C10_MalformedStep ==
  Handled /\ MalformedNumber(NameOf(lastLine'), ArgsOf(lastLine')) =>
    UNCHANGED <<state, header, queue>>

C10_Malformed == [][C10_MalformedStep]_vars

\* A malformed rate was dropped with a rate, a scale and a queue in place.
C10_Witness ==
  /\ LastName = N_tts_set_speech_rate
  /\ raised = "ValueError"
  /\ state.rate_offset # {}
  /\ state.character_scale # {}
  /\ queue # <<>>

(***************************************************************************)
(* C11.  A command with a malformed numeric argument does not end the      *)
(* connection that sent it: handle goes on reading that connection, so     *)
(* every later command of it is still dispatched.                          *)
(***************************************************************************)
C11_KeepsConnectionStep ==
  Handled /\ MalformedNumber(NameOf(lastLine'), ArgsOf(lastLine')) =>
    connected'

C11_KeepsConnection == [][C11_KeepsConnectionStep]_vars

(***************************************************************************)
(* C12.  Whatever two connections have had dispatched, the Speech Queue    *)
(* holds exactly the items their `q` and `t` lines appended since it was   *)
(* last cleared: each connection's items in its own order, every text      *)
(* immediately followed by its own end-of-utterance marker, nothing lost,  *)
(* doubled or split by an item of the other connection.                    *)
(***************************************************************************)
RECURSIVE IsMerge(_, _, _)
IsMerge(z, x, y) ==
  IF z = <<>> THEN x = <<>> /\ y = <<>>
  ELSE \/ /\ x # <<>>
          /\ IsPrefix(Head(x), z)
          /\ IsMerge(SubSeq(z, Len(Head(x)) + 1, Len(z)), Tail(x), y)
       \/ /\ y # <<>>
          /\ IsPrefix(Head(y), z)
          /\ IsMerge(SubSeq(z, Len(Head(y)) + 1, Len(z)), x, Tail(y))

C12_PairsIntact == IsMerge(queue, appended["c1"], appended["c2"])

\* `q {b c}` of c2 and then `q {a}` of c1 were dispatched on an empty queue.
C12_Witness ==
  /\ appended["c1"] = <<<<Text(<<"a">>), EndUtteranceCommand>>>>
  /\ appended["c2"] = <<<<Text(<<"b", " ", "c">>), EndUtteranceCommand>>>>
  /\ Len(queue) = 4
  /\ queue[1] = Text(<<"b", " ", "c">>)

(***************************************************************************)
(* C13.  Between the speak call and the clear of a `d` nothing else runs:  *)
(* the queue that the clear empties is the queue that was submitted, and   *)
(* no handle of another connection is under way.                           *)
(***************************************************************************)
C13_DrainAtomic ==
  \A c \in Conns :
    pc[c] = "d_clear" =>
      /\ dres[c] = header \o queue
      /\ \A k \in Conns \ {c} : pc[k] = "none"

\* A `d` is between its two steps with items of the other connection in its
\* request, while that connection has sent its next `q`.
C13_Witness ==
  /\ pc["c1"] = "d_clear"
  /\ appended["c2"] # <<>>
  /\ queue # <<>>
  /\ sock["c2"] = "open"
  /\ inbox["c2"] # NoLine
  /\ NameOf(inbox["c2"]) = N_q

(***************************************************************************)
(* C14.  Each connection is served by a worker of its own: while one       *)
(* connection is open and idle in handle, a second connection that has     *)
(* sent a line can be accepted and served without the first one closing.   *)
(***************************************************************************)
C14_OwnWorker ==
  \A c, k \in Conns :
    ( /\ c # k
      /\ sock[k] = "open" /\ pc[k] = "loop" /\ inbox[k] = NoLine
      /\ sock[c] = "open" /\ pc[c] = "none" /\ inbox[c] # NoLine )
    => ENABLED srvAccept(c)

(***************************************************************************)
(* C15.  Every `l` calls cancelSpeech and then speak, once each; the items *)
(* of the request are the Header items, then one character-scale override  *)
(* if and only if character_scale is set, then the spelling expansion of   *)
(* the argument; Speech Queue, Session State and Header are as before.     *)
(***************************************************************************)
C15_LetterStep ==
  LET args == ArgsOf(lastLine')
      scale == IF state.character_scale # {}
               THEN <<RateMultiplier(CHOOSE v \in state.character_scale : TRUE)>>
               ELSE <<>>
  IN Handled /\ NameOf(lastLine') = N_l =>
       /\ calls' = <<CancelSpeech,
                     Speak(DerivedHeader \o scale
                             \o getSpellingSpeech(Join(<<>>, args)))>>
       /\ UNCHANGED <<queue, state, header>>

C15_Letter == [][C15_LetterStep]_vars

(***************************************************************************)
(* C16.  The tokenizer yields the command name and at least one argument   *)
(* (a line of one token gets the single argument ""); the name is the      *)
(* first token as it stands, interior tokens are as they stand, the first  *)
(* argument loses one leading "{" if it has one and no more, the last      *)
(* argument one trailing "}" if it has one and no more; a line with a      *)
(* non-blank character has a non-empty name.                               *)
(***************************************************************************)
DropLast(x) == SubSeq(x, 1, Len(x) - 1)

C16_Tokenizer ==
  tokOut # NoLine =>
    LET raw == Split(Strip(tokLine))
        pad == IF Len(raw) < 2 THEN Append(raw, <<>>) ELSE raw
        n == Len(pad)
        first == IF StartsWith(pad[2], "{") THEN Tail(pad[2]) ELSE pad[2]
    IN /\ Len(tokOut) = n
       /\ n >= 2
       /\ Len(raw) = 1 => Tail(tokOut) = << <<>> >>
       /\ tokOut[1] = raw[1]
       /\ \A i \in 3..(n - 1) : tokOut[i] = pad[i]
       /\ IF n = 2
          THEN tokOut[2] = (IF EndsWith(first, "}") THEN DropLast(first) ELSE first)
          ELSE /\ tokOut[2] = first
               /\ tokOut[n] = (IF EndsWith(pad[n], "}") THEN DropLast(pad[n])
                               ELSE pad[n])
       /\ (\E i \in 1..Len(tokLine) : tokLine[i] \notin Whitespace) =>
            tokOut[1] # <<>>

\* "{{ }}" was tokenized: one brace is left on either argument.
C16_Witness ==
  /\ tokLine = <<"{", "{", " ", "}", "}">>
  /\ tokOut = << <<"{", "{">>, <<"}">> >>

(***************************************************************************)
(* C17.  Session State is changed only by tts_set_speech_rate,             *)
(* tts_set_character_scale and tts_reset; the Speech Queue only by `q`,    *)
(* `t`, `d` and `s`; the Header only by tts_set_speech_rate and tts_reset. *)
(***************************************************************************)
C17_FrameStep ==
  LET name == NameOf(lastLine') IN
    Handled =>
      /\ state' # state =>
           name \in {N_tts_set_speech_rate, N_tts_set_character_scale, N_tts_reset}
      /\ queue' # queue => name \in {N_q, N_t, N_d, N_s}
      /\ header' # header => name \in {N_tts_set_speech_rate, N_tts_reset}

C17_Frame == [][C17_FrameStep]_vars

(***************************************************************************)
(* C18 as stated: whatever the command, handling the same line a second    *)
(* time in a row leaves Session State, Header and Speech Queue as the      *)
(* first time left them.                                                   *)
(***************************************************************************)
C18_AllIdempotentStep ==
  Handled /\ lastLine' = lastLine => UNCHANGED <<state, header, queue>>

Appends(name, args) ==
  \/ name = N_q
  \/ name = N_t /\ Len(args) = 2 /\ IsFloat(args[1]) /\ IsInt(args[2])

C18_IdempotentStep ==
  LET name == NameOf(lastLine')
      args == ArgsOf(lastLine')
  IN Handled /\ lastLine' = lastLine =>
       /\ ~Appends(name, args) => UNCHANGED <<state, queue>>
       /\ Appends(name, args) => UNCHANGED state
       /\ name # N_version => UNCHANGED header

RECURSIVE WellPaired(_)
WellPaired(xs) ==
  \/ xs = <<>>
  \/ /\ Len(xs) >= 1
     /\ xs[1].kind = "BeepCommand"
     /\ WellPaired(Tail(xs))
  \/ /\ Len(xs) >= 2
     /\ xs[1].kind = "str"
     /\ xs[2] = EndUtteranceCommand
     /\ WellPaired(Tail(Tail(xs)))

C19_QueuePaired == WellPaired(queue)

\* A full queue: a tone, an utterance, a tone.
C19_Witness ==
  /\ Len(queue) = 4
  /\ queue[1].kind = "BeepCommand"
  /\ queue[2].kind = "str"
  /\ queue[3] = EndUtteranceCommand
  /\ queue[4].kind = "BeepCommand"

(***************************************************************************)
(* C20.  An item of the Speech Queue is submitted to the backend at most   *)
(* once: `d` submits the whole queue behind the Header and leaves it       *)
(* empty, `s` empties it and speaks nothing, every other command leaves    *)
(* the items in place, and the requests of `l`, `version` and              *)
(* `tts_saytext` are made of the Header and the arguments alone.           *)
(***************************************************************************)
C20_OnceStep ==
  LET name == NameOf(lastLine')
      args == ArgsOf(lastLine')
      scale == IF state.character_scale # {}
               THEN <<RateMultiplier(CHOOSE v \in state.character_scale : TRUE)>>
               ELSE <<>>
  IN Handled =>
       /\ name = N_d =>
            /\ calls' = <<Speak(header \o queue)>>
            /\ queue' = <<>>
       /\ name = N_s =>
            /\ calls' = <<CancelSpeech>>
            /\ queue' = <<>>
       /\ name \notin {N_d, N_s} => IsPrefix(queue, queue')
       /\ name = N_l =>
            calls' = <<CancelSpeech,
                       Speak(header \o scale \o getSpellingSpeech(Join(<<>>, args)))>>
       /\ name = N_version =>
            calls' = <<Speak(Append(header, Text(VersionString)))>>
       /\ name = N_tts_saytext =>
            calls' = <<Speak([i \in 1..Len(args) |-> Text(args[i])])>>
       /\ name \notin {N_d, N_l, N_version, N_tts_saytext} =>
            \A i \in 1..Len(calls') : calls'[i].op # "speak"

C20_Once == [][C20_OnceStep]_vars

\* `d` submitted two utterances behind a Header and left the queue empty.
C20_Witness ==
  /\ LastName = N_d
  /\ queue = <<>>
  /\ header # <<>>
  /\ Len(SpeakCalls) = 1
  /\ Len(SpeakCalls[1].items) = Len(header) + 4

====
